---- MODULE Spec2Model ----
(***************************************************************************)
(* libspark: the block validation engine (src/lib/block.c, block.h) and    *)
(* the biquad cascade kernel (src/lib/iir-filter/iir_sosfilt_f32.c).       *)
(*                                                                         *)
(* Pointers are naturals, 0 is NULL.  uint32_t fields are naturals; the    *)
(* flag words are decoded arithmetically exactly as the masks do.          *)
(***************************************************************************)
EXTENDS Integers, Sequences, FiniteSets, TLC

(***************************************************************************)
(* Bounds of the model.                                                    *)
(***************************************************************************)
\* largest channel and frame count of the descriptors given to validation
MaxCount == 2
\* largest shape and cascade the kernel is run on
MaxChannels == 2
MaxFrames == 3
MaxStages == 2

(***************************************************************************)
(* Program constants.                                                      *)
(***************************************************************************)
NULL == 0

SPARK_FMT_INVALID == 0
SPARK_FMT_I16 == 1
SPARK_FMT_I32 == 2
SPARK_FMT_F32 == 3
SPARK_FMT_F64 == 4
SPARK_FMT_MASK == 15

SPARK_LAYOUT_INVALID == 0
SPARK_LAYOUT_INTERLEAVED == 16
SPARK_LAYOUT_PLANAR == 32
SPARK_LAYOUT_MASK == 240

SPARK_BLOCK_INVALID == 0
SPARK_BLOCK_PROCESS == 256
SPARK_BLOCK_CONVERT == 512
SPARK_BLOCK_SOURCE == 768
SPARK_BLOCK_SINK == 1024
SPARK_BLOCK_TYPE_MASK == 1792

SPARK_NOERROR == 0
SPARK_ERR_INVALID_PARAM == 1
SPARK_ERR_INVALID_SIZE == 2
SPARK_ERR_INVALID_ABI == 3
SPARK_ERR_INVALID_INPUT == 4
SPARK_ERR_INVALID_OUTPUT == 5
SPARK_ERR_INVALID_BLOCK == 6

\* The library's ABI tag (from <spark/version.h>) and sizeof(spark_block_t)
\* on an LP64 target: 2 * uint32_t + 2 * (pointer + 3 * uint32_t + padding).
SPARK_ABI_VERSION == 1
sizeof_spark_block_t == 56

SPARK_SOSFILT_SHARE_SOS == 1

\* status before spark_block_validate has returned
NoStatus == 99

VARIABLES
  pc,        \* position of the caller: "call" before, "done" after the call
  p_block,   \* the p_block argument (NULL or the address of block)
  block,     \* the spark_block_t p_block points to
  flags,     \* the required flags argument
  status,    \* the value spark_block_validate returned
  self,      \* the spark_sosfilt_f32_t instance (self.p = NULL: no instance)
  ndebug,    \* TRUE in a release build (assert compiled out)
  coeffMem,  \* the floats self->coefficients points to, by offset
  stateMem,  \* the floats self->states points to, by offset
  samples,   \* sample memory, by address
  kernel,    \* the locals and position of the running spark_sosfilt_f32
  accesses,  \* one record per biquad_process_f32 call made so far
  whole,     \* the caller's whole input signal, per channel
  state0,    \* the state array before the first chunk
  collected, \* the output the caller has gathered so far, per channel
  fed,       \* frames of the signal already processed
  chunk,     \* frames of the chunk in flight (0: none)
  calls,     \* calls of spark_sosfilt_f32 the caller has made
  cmp        \* the spark_buffer_is_similar calls made: arguments and results

validateVars == <<pc, p_block, block, flags, status, cmp>>
kernelVars == <<self, ndebug, coeffMem, stateMem, samples, kernel, accesses>>
streamVars == <<whole, state0, collected, fed, chunk, calls>>
vars == <<validateVars, kernelVars, streamVars>>

(***************************************************************************)
(* Flag codec: flags & MASK for the three contiguous bit fields.           *)
(***************************************************************************)
spark_buffer_get_layout(f) == ((f \div 16) % 16) * 16

spark_buffer_get_format(f) == f % 16

spark_block_get_type_wide(f) == ((f \div 256) % 16) * 256

spark_block_get_type(f) == ((f \div 256) % 8) * 256

(***************************************************************************)
(* Buffer predicates.  A descriptor pointer is NULL or an index into heap, *)
(* the sequence of descriptors it may point to.                            *)
(***************************************************************************)
spark_buffer_is_similar_compares_base(a, b, heap) ==
  IF a = b THEN TRUE
  ELSE IF a = NULL \/ b = NULL THEN FALSE
  ELSE /\ spark_buffer_get_format(heap[a].flags) = spark_buffer_get_format(heap[b].flags)
       /\ spark_buffer_get_layout(heap[a].flags) = spark_buffer_get_layout(heap[b].flags)
       /\ heap[a].channels = heap[b].channels
       /\ heap[a].frames = heap[b].frames
       /\ heap[a].base = heap[b].base

spark_buffer_is_similar_no_channels(a, b, heap) ==
  IF a = b THEN TRUE
  ELSE IF a = NULL \/ b = NULL THEN FALSE
  ELSE /\ spark_buffer_get_format(heap[a].flags) = spark_buffer_get_format(heap[b].flags)
       /\ spark_buffer_get_layout(heap[a].flags) = spark_buffer_get_layout(heap[b].flags)
       /\ heap[a].frames = heap[b].frames

spark_buffer_is_similar(a, b, heap) ==
  IF a = b THEN TRUE
  ELSE IF a = NULL \/ b = NULL THEN FALSE
  ELSE /\ spark_buffer_get_format(heap[a].flags) = spark_buffer_get_format(heap[b].flags)
       /\ spark_buffer_get_layout(heap[a].flags) = spark_buffer_get_layout(heap[b].flags)
       /\ heap[a].channels = heap[b].channels
       /\ heap[a].frames = heap[b].frames

spark_buffer_is_valid(buf, heap) ==
  /\ buf # NULL
  /\ heap[buf].base # NULL
  /\ heap[buf].channels > 0
  /\ heap[buf].frames > 0

spark_buffer_check_type(buf, fmt, layout, heap) ==
  IF buf = NULL THEN FALSE
  ELSE /\ spark_buffer_get_format(heap[buf].flags) = fmt
       /\ spark_buffer_get_layout(heap[buf].flags) = layout

(***************************************************************************)
(* spark_block_validate.  &block->input is heap index 1, &block->output is *)
(* heap index 2.                                                           *)
(***************************************************************************)
BlockHeap(b) == <<b.input, b.output>>
InPtr == 1
OutPtr == 2

validate_process_buffers_first(b, req_fmt, req_layout) ==
  LET heap == BlockHeap(b) IN
  IF ~spark_buffer_is_valid(InPtr, heap) THEN SPARK_ERR_INVALID_INPUT
  ELSE IF ~spark_buffer_is_valid(OutPtr, heap) THEN SPARK_ERR_INVALID_OUTPUT
  ELSE IF ~spark_buffer_check_type(InPtr, req_fmt, req_layout, heap)
    THEN SPARK_ERR_INVALID_INPUT
  ELSE IF ~spark_buffer_check_type(OutPtr, req_fmt, req_layout, heap)
    THEN SPARK_ERR_INVALID_OUTPUT
  ELSE IF ~spark_buffer_is_similar(InPtr, OutPtr, heap) THEN SPARK_ERR_INVALID_BLOCK
  ELSE SPARK_NOERROR

validate_process(b, req_fmt, req_layout) ==
  LET heap == BlockHeap(b) IN
  IF ~spark_buffer_is_similar(InPtr, OutPtr, heap) THEN SPARK_ERR_INVALID_BLOCK
  ELSE IF ~spark_buffer_is_valid(InPtr, heap) THEN SPARK_ERR_INVALID_INPUT
  ELSE IF ~spark_buffer_is_valid(OutPtr, heap) THEN SPARK_ERR_INVALID_OUTPUT
  ELSE IF ~spark_buffer_check_type(InPtr, req_fmt, req_layout, heap)
    THEN SPARK_ERR_INVALID_INPUT
  ELSE IF ~spark_buffer_check_type(OutPtr, req_fmt, req_layout, heap)
    THEN SPARK_ERR_INVALID_OUTPUT
  ELSE SPARK_NOERROR

validate_convert_no_output_check(b, req_fmt, req_layout) ==
  LET heap == BlockHeap(b) IN
  IF ~spark_buffer_is_valid(InPtr, heap) THEN SPARK_ERR_INVALID_INPUT
  ELSE IF ~spark_buffer_check_type(InPtr, req_fmt, req_layout, heap)
    THEN SPARK_ERR_INVALID_INPUT
  ELSE SPARK_NOERROR

validate_convert_typed_output(b, req_fmt, req_layout) ==
  LET heap == BlockHeap(b) IN
  IF ~spark_buffer_is_valid(InPtr, heap) THEN SPARK_ERR_INVALID_INPUT
  ELSE IF ~spark_buffer_is_valid(OutPtr, heap) THEN SPARK_ERR_INVALID_OUTPUT
  ELSE IF ~spark_buffer_check_type(InPtr, req_fmt, req_layout, heap)
    THEN SPARK_ERR_INVALID_INPUT
  ELSE IF ~spark_buffer_check_type(OutPtr, req_fmt, req_layout, heap)
    THEN SPARK_ERR_INVALID_OUTPUT
  ELSE SPARK_NOERROR

validate_convert(b, req_fmt, req_layout) ==
  LET heap == BlockHeap(b) IN
  IF ~spark_buffer_is_valid(InPtr, heap) THEN SPARK_ERR_INVALID_INPUT
  ELSE IF ~spark_buffer_is_valid(OutPtr, heap) THEN SPARK_ERR_INVALID_OUTPUT
  ELSE IF ~spark_buffer_check_type(InPtr, req_fmt, req_layout, heap)
    THEN SPARK_ERR_INVALID_INPUT
  ELSE SPARK_NOERROR

validate_source(b, req_fmt, req_layout) ==
  LET heap == BlockHeap(b) IN
  IF ~spark_buffer_is_valid(OutPtr, heap) THEN SPARK_ERR_INVALID_OUTPUT
  ELSE IF ~spark_buffer_check_type(OutPtr, req_fmt, req_layout, heap)
    THEN SPARK_ERR_INVALID_OUTPUT
  ELSE SPARK_NOERROR

validate_sink_checks_output(b, req_fmt, req_layout) ==
  LET heap == BlockHeap(b) IN
  IF ~spark_buffer_is_valid(InPtr, heap) THEN SPARK_ERR_INVALID_INPUT
  ELSE IF ~spark_buffer_is_valid(OutPtr, heap) THEN SPARK_ERR_INVALID_OUTPUT
  ELSE IF ~spark_buffer_check_type(InPtr, req_fmt, req_layout, heap)
    THEN SPARK_ERR_INVALID_INPUT
  ELSE SPARK_NOERROR

validate_sink(b, req_fmt, req_layout) ==
  LET heap == BlockHeap(b) IN
  IF ~spark_buffer_is_valid(InPtr, heap) THEN SPARK_ERR_INVALID_INPUT
  ELSE IF ~spark_buffer_check_type(InPtr, req_fmt, req_layout, heap)
    THEN SPARK_ERR_INVALID_INPUT
  ELSE SPARK_NOERROR

validate_by_type(b, f) ==
  LET req_fmt == spark_buffer_get_format(f)
      req_layout == spark_buffer_get_layout(f)
      block_type == spark_block_get_type(f)
  IN
  IF \/ req_fmt = SPARK_FMT_INVALID
     \/ req_layout = SPARK_LAYOUT_INVALID
     \/ block_type = SPARK_BLOCK_INVALID
    THEN SPARK_ERR_INVALID_PARAM
  ELSE IF block_type = SPARK_BLOCK_PROCESS THEN validate_process(b, req_fmt, req_layout)
  ELSE IF block_type = SPARK_BLOCK_CONVERT THEN validate_convert(b, req_fmt, req_layout)
  ELSE IF block_type = SPARK_BLOCK_SOURCE THEN validate_source(b, req_fmt, req_layout)
  ELSE IF block_type = SPARK_BLOCK_SINK THEN validate_sink(b, req_fmt, req_layout)
  ELSE SPARK_ERR_INVALID_BLOCK

spark_block_validate_abi_first(p, b, f) ==
  IF p = NULL THEN SPARK_ERR_INVALID_PARAM
  ELSE IF b.abi_version # SPARK_ABI_VERSION THEN SPARK_ERR_INVALID_ABI
  ELSE IF b.struct_size < sizeof_spark_block_t THEN SPARK_ERR_INVALID_SIZE
  ELSE validate_by_type(b, f)

spark_block_validate(p, b, f) ==
  IF p = NULL THEN SPARK_ERR_INVALID_PARAM
  ELSE IF b.struct_size < sizeof_spark_block_t THEN SPARK_ERR_INVALID_SIZE
  ELSE IF b.abi_version # SPARK_ABI_VERSION THEN SPARK_ERR_INVALID_ABI
  ELSE validate_by_type(b, f)

(***************************************************************************)
(* The biquad cascade kernel.  float values are modelled by integers: the  *)
(* inputs are small integers, on which float arithmetic is exact.          *)
(*                                                                         *)
(* coeff and states are cursors: offsets in floats from self->coefficients *)
(* and self->states.  in, out, input, output are sample addresses.         *)
(***************************************************************************)
MemSize == 2 * MaxChannels * MaxFrames
CoeffLen == 6 * MaxChannels * MaxStages
StateLen == 2 * MaxChannels * MaxStages

\* a load of mem[i]
Load(mem, i) == IF i \in DOMAIN mem THEN mem[i] ELSE 0

RECURSIVE biquad_loop(_, _, _, _, _, _, _, _)
biquad_loop(i, frames, c, s1, s2, smp, output, input) ==
  IF i >= frames THEN [samples |-> smp, s1 |-> s1, s2 |-> s2]
  ELSE LET x == Load(smp, input + i)
           y == (c[1] * x) + s1
           n1 == (c[2] * x) + (c[4] * y) + s2
           n2 == (c[3] * x) + (c[5] * y)
       IN biquad_loop(i + 1, frames, c, n1, n2,
                      [smp EXCEPT ![output + i] = y], output, input)

RECURSIVE biquad_loop_write_first(_, _, _, _, _, _, _, _)
biquad_loop_write_first(i, frames, c, s1, s2, smp, output, input) ==
  IF i >= frames THEN [samples |-> smp, s1 |-> s1, s2 |-> s2]
  ELSE LET x == Load([smp EXCEPT ![output + i] = 0], input + i)
           y == (c[1] * x) + s1
           n1 == (c[2] * x) + (c[4] * y) + s2
           n2 == (c[3] * x) + (c[5] * y)
       IN biquad_loop_write_first(i + 1, frames, c, n1, n2,
                                  [smp EXCEPT ![output + i] = y], output, input)

biquad_process_f32_write_first(c, s, smp, output, input, frames) ==
  biquad_loop_write_first(0, frames, c, s[1], s[2], smp, output, input)

biquad_process_f32_state_lost(c, s, smp, output, input, frames) ==
  [biquad_loop(0, frames, c, s[1], s[2], smp, output, input)
     EXCEPT !.s1 = s[1], !.s2 = s[2]]

\* c: the five coefficients loaded, s: the two state values loaded;
\* the result carries the two state values to store back
biquad_process_f32(c, s, smp, output, input, frames) ==
  biquad_loop(0, frames, c, s[1], s[2], smp, output, input)

\* a * b in uint32_t, that is modulo 2^32, for a, b below 2^31; computed
\* on 16-bit and 8-bit halves so that no intermediate value reaches 2^31
uint32_mul(a, b) ==
  LET al == a % 65536
      ah == a \div 65536
      bl == b % 65536
      bh == b \div 65536
      p0 == (al % 256) * bl
      p1 == (al \div 256) * bl
      lo_sum == (p0 % 65536) + ((p1 % 256) * 256)
      hi_low == (p0 \div 65536) + (p1 \div 256) + (lo_sum \div 65536)
      cross == ((ah * bl) % 65536) + ((al * bh) % 65536)
  IN (((hi_low + cross) % 65536) * 65536) + (lo_sum % 65536)

\* chan * n_frames, a product of two uint32_t
plane_offset(chan, n_frames) == uint32_mul(chan, n_frames)

next_coeff_six(coeff) == coeff + 6

next_coeff(coeff) == coeff + 5

next_states_stuck(states) == states

next_states(states) == states + 2

channel_coeff_never_reset(share_sos, coeff) == coeff

channel_coeff(share_sos, coeff) == IF share_sos THEN 0 ELSE coeff

KernelIdle ==
  [pc |-> "entry", status |-> NoStatus, n_chan |-> 0, n_frames |-> 0,
   n_stages |-> 0, share_sos |-> FALSE, coeff |-> 0, states |-> 0,
   input |-> NULL, output |-> NULL, chan |-> 0, stage |-> 0,
   in |-> NULL, out |-> NULL]

KernelFlags == SPARK_FMT_F32 + SPARK_LAYOUT_PLANAR + SPARK_BLOCK_PROCESS

\* assert(e): aborts in a debug build, nothing in a release build
AssertFails(nd, e) == ~nd /\ ~e

\* function entry up to the first test of the channel loop
sosfilt_entry(k, slf, nd) ==
  IF AssertFails(nd, slf.p # NULL) THEN [k EXCEPT !.pc = "aborted"]
  ELSE
    LET st == spark_block_validate(slf.p, slf.header, KernelFlags) IN
    IF AssertFails(nd, st = SPARK_NOERROR)
      THEN [k EXCEPT !.pc = "aborted", !.status = st]
    ELSE IF st # SPARK_NOERROR
      THEN [k EXCEPT !.pc = "returned", !.status = st]
    ELSE IF AssertFails(nd, slf.coefficients # NULL /\ slf.states # NULL
                            /\ slf.n_stages > 0)
      THEN [k EXCEPT !.pc = "aborted", !.status = st]
    ELSE
      [k EXCEPT !.pc = "chan_loop", !.status = st,
                !.n_chan = slf.header.input.channels,
                !.n_frames = slf.header.input.frames,
                !.n_stages = slf.n_stages,
                !.share_sos = (slf.flags % 2) = SPARK_SOSFILT_SHARE_SOS,
                !.coeff = 0, !.states = 0,
                !.input = slf.header.input.base,
                !.output = slf.header.output.base,
                !.chan = 0]

\* the channel loop: its test and the statements before the stage loop
sosfilt_channel(k) ==
  IF k.chan < k.n_chan
    THEN [k EXCEPT !.in = k.input + plane_offset(k.chan, k.n_frames),
                   !.out = k.output + plane_offset(k.chan, k.n_frames),
                   !.coeff = channel_coeff(k.share_sos, k.coeff),
                   !.stage = 0,
                   !.pc = "stage_loop"]
    ELSE [k EXCEPT !.pc = "returned"]

Machine(k, st, smp, acc) ==
  [kernel |-> k, stateMem |-> st, samples |-> smp, accesses |-> acc]

AccessOf(k) ==
  [chan |-> k.chan, stage |-> k.stage, coeff |-> k.coeff, states |-> k.states,
   in |-> k.in, out |-> k.out, frames |-> k.n_frames]

\* the stage loop: its test and one iteration, or the end of the channel
\* iteration.  g is what a load through a NULL coefficient or state pointer
\* yields when it does not trap; a store through NULL is then lost.
sosfilt_stage(m, slf, cmem, g) ==
  LET k == m.kernel IN
  IF k.stage < k.n_stages
    THEN
      LET c == IF slf.coefficients = NULL THEN <<g, g, g, g, g>>
               ELSE [j \in 1..5 |-> Load(cmem, k.coeff + j - 1)]
          s == IF slf.states = NULL THEN <<g, g>>
               ELSE <<Load(m.stateMem, k.states), Load(m.stateMem, k.states + 1)>>
          r == biquad_process_f32(c, s, m.samples, k.out, k.in, k.n_frames)
      IN Machine([k EXCEPT !.coeff = next_coeff(k.coeff),
                           !.states = next_states(k.states),
                           !.in = k.out,
                           !.stage = k.stage + 1],
                 IF slf.states = NULL THEN m.stateMem
                 ELSE [m.stateMem EXCEPT ![k.states] = r.s1,
                                         ![k.states + 1] = r.s2],
                 r.samples,
                 Append(m.accesses, AccessOf(k)))
    ELSE Machine([k EXCEPT !.chan = k.chan + 1, !.pc = "chan_loop"],
                 m.stateMem, m.samples, m.accesses)

\* a whole call that dereferences no NULL pointer, from entry to return
RECURSIVE sosfilt_run(_, _, _, _)
sosfilt_run(m, slf, nd, cmem) ==
  IF m.kernel.pc = "entry"
    THEN sosfilt_run([m EXCEPT !.kernel = sosfilt_entry(m.kernel, slf, nd)],
                     slf, nd, cmem)
  ELSE IF m.kernel.pc = "chan_loop"
    THEN sosfilt_run([m EXCEPT !.kernel = sosfilt_channel(m.kernel)], slf, nd, cmem)
  ELSE IF m.kernel.pc = "stage_loop"
    THEN sosfilt_run(sosfilt_stage(m, slf, cmem, 0), slf, nd, cmem)
  ELSE m

(***************************************************************************)
(* The inputs a caller may pass.                                           *)
(***************************************************************************)
BufFlagSet ==
  { SPARK_FMT_F32 + SPARK_LAYOUT_PLANAR,
    SPARK_FMT_I16 + SPARK_LAYOUT_PLANAR,
    SPARK_FMT_F32 + SPARK_LAYOUT_INTERLEAVED,
    SPARK_FMT_INVALID + SPARK_LAYOUT_PLANAR }

BufferSet ==
  [base : {NULL, 1}, channels : 0..MaxCount, frames : 0..MaxCount,
   flags : BufFlagSet]

BlockSet ==
  [abi_version : {SPARK_ABI_VERSION, SPARK_ABI_VERSION + 1},
   struct_size : {sizeof_spark_block_t - 1, sizeof_spark_block_t,
                  sizeof_spark_block_t + 8},
   input : BufferSet, output : BufferSet]

ReqFlagSet ==
  { fmt + layout + (t * 256) :
      fmt \in {SPARK_FMT_INVALID, SPARK_FMT_F32, SPARK_FMT_I16},
      layout \in {SPARK_LAYOUT_INVALID, SPARK_LAYOUT_PLANAR},
      t \in 0..7 }

\* what a NULL p_block "points to" is never read; one fixed value stands for it
NoBlock ==
  [abi_version |-> 0, struct_size |-> 0,
   input |-> [base |-> NULL, channels |-> 0, frames |-> 0, flags |-> 0],
   output |-> [base |-> NULL, channels |-> 0, frames |-> 0, flags |-> 0]]

\* no spark_buffer_is_similar call made
NoCompare == <<>>

NoSelf ==
  [p |-> NULL, header |-> NoBlock, coefficients |-> NULL, states |-> NULL,
   n_stages |-> 0, flags |-> 0]

\* sample memory: the input planes start at InBase; an output that is not
\* in place starts at OutBase
InBase == 1
OutBase == (MaxChannels * MaxFrames) + 1

F32Planar == SPARK_FMT_F32 + SPARK_LAYOUT_PLANAR

HeaderOf(channels, frames, outbase) ==
  [abi_version |-> SPARK_ABI_VERSION, struct_size |-> sizeof_spark_block_t,
   input |-> [base |-> InBase, channels |-> channels, frames |-> frames,
              flags |-> F32Planar],
   output |-> [base |-> outbase, channels |-> channels, frames |-> frames,
               flags |-> F32Planar]]

GoodHeaderSet ==
  { HeaderOf(c, f, o) : c \in 1..MaxChannels, f \in 1..MaxFrames,
                        o \in {InBase, OutBase} }

\* headers spark_block_validate rejects for F32 + planar + Process
BadHeaderSet ==
  LET h == HeaderOf(1, MaxFrames, OutBase) IN
  { [h EXCEPT !.abi_version = SPARK_ABI_VERSION + 1],
    [h EXCEPT !.struct_size = sizeof_spark_block_t - 1],
    [h EXCEPT !.input.base = NULL],
    [h EXCEPT !.output.base = NULL],
    [h EXCEPT !.input.frames = 0, !.output.frames = 0],
    [h EXCEPT !.output.channels = MaxChannels],
    [h EXCEPT !.input.flags = SPARK_FMT_I16 + SPARK_LAYOUT_PLANAR,
              !.output.flags = SPARK_FMT_I16 + SPARK_LAYOUT_PLANAR],
    [h EXCEPT !.input.flags = SPARK_FMT_F32 + SPARK_LAYOUT_INTERLEAVED,
              !.output.flags = SPARK_FMT_F32 + SPARK_LAYOUT_INTERLEAVED] }

SelfSet ==
  [p : {1}, header : GoodHeaderSet \cup BadHeaderSet,
   coefficients : {NULL, 1}, states : {NULL, 1},
   n_stages : 0..MaxStages, flags : 0..3]

\* one second-order section: { b0, b1, b2, -a1, -a2 }
SosSet == { <<1, 0, 0, 0, 0>>, <<1, 1, 1, 0, 0>>, <<1, 0, 1, 1, -1>> }

\* coefficient memory: sections a and b alternate, 5 floats each
CoeffMemOf(a, b) ==
  [i \in 0..(CoeffLen - 1) |->
     IF ((i \div 5) % 2) = 0 THEN a[(i % 5) + 1] ELSE b[(i % 5) + 1]]

CoeffMemSet == { CoeffMemOf(a, b) : a \in SosSet, b \in SosSet }

\* state memory: all zero (cold start) for z = 0
StateMemOf(z) == [i \in 0..(StateLen - 1) |-> (z * (i + 1)) % 3]

StateMemSet == { StateMemOf(z) : z \in 0..2 }

\* sample i of the input signal of channel c; an even seed feeds every
\* channel the same signal
SignalOf(seed, c, i) == ((seed * (i + 1) + ((seed % 2) * c)) % 3) - 1

SeedSet == 1..3

BlankSamples == [a \in 1..MemSize |-> 0]

\* what a load through NULL may yield
GarbageSet == {0, 1}

(***************************************************************************)
(* Spec: one call of spark_block_validate on any block and required flags. *)
(***************************************************************************)
NoKernelRun ==
  /\ self = NoSelf
  /\ ndebug = TRUE
  /\ coeffMem = <<>>
  /\ stateMem = <<>>
  /\ samples = <<>>
  /\ kernel = [KernelIdle EXCEPT !.pc = "returned"]
  /\ accesses = <<>>

NoStream ==
  /\ whole = <<>>
  /\ state0 = <<>>
  /\ collected = <<>>
  /\ fed = 0
  /\ chunk = 0
  /\ calls = 0

Init ==
  /\ pc = "call"
  /\ p_block \in {NULL, 1}
  /\ block \in (IF p_block = NULL THEN {NoBlock} ELSE BlockSet)
  /\ flags \in ReqFlagSet
  /\ status = NoStatus
  /\ cmp = NoCompare
  /\ NoKernelRun
  /\ NoStream

\* a validation that marks the input it has seen as consumed
ValidateCall_consumes ==
  /\ pc = "call"
  /\ status' = spark_block_validate(p_block, block, flags)
  /\ pc' = "done"
  /\ block' = [block EXCEPT !.input.frames = 0]
  /\ UNCHANGED <<p_block, flags, cmp, kernelVars, streamVars>>

ValidateCall ==
  /\ pc = "call"
  /\ status' = spark_block_validate(p_block, block, flags)
  /\ pc' = "done"
  /\ UNCHANGED <<p_block, block, flags, cmp, kernelVars, streamVars>>

Next == ValidateCall

Spec == Init /\ [][Next]_vars

(***************************************************************************)
(* SpecCalls: two calls of spark_block_validate in a row on the same block *)
(* and required flags; the flags may carry bits outside the three fields.  *)
(***************************************************************************)
StrayBitSet == {0, 2048, 1073741824 + 4096}

CallBufferSet ==
  [base : {NULL, 1}, channels : {0, 1}, frames : {0, 1}, flags : BufFlagSet]

CallBlockSet ==
  [abi_version : {SPARK_ABI_VERSION, SPARK_ABI_VERSION + 1},
   struct_size : {sizeof_spark_block_t - 1, sizeof_spark_block_t},
   input : CallBufferSet, output : CallBufferSet]

InitCalls ==
  /\ pc = "call"
  /\ p_block \in {NULL, 1}
  /\ block \in (IF p_block = NULL THEN {NoBlock} ELSE CallBlockSet)
  /\ flags \in { f + s : f \in ReqFlagSet, s \in StrayBitSet }
  /\ status = NoStatus
  /\ cmp = NoCompare
  /\ NoKernelRun
  /\ NoStream

\* the caller calls again with the same arguments
ValidateAgain ==
  /\ pc = "done"
  /\ status' = spark_block_validate(p_block, block, flags)
  /\ pc' = "repeated"
  /\ UNCHANGED <<p_block, block, flags, cmp, kernelVars, streamVars>>

NextCalls == ValidateCall \/ ValidateAgain

SpecCalls == InitCalls /\ [][NextCalls]_vars

(***************************************************************************)
(* SpecSimilar: spark_buffer_is_similar called on any two descriptor       *)
(* pointers, in both orders and on the first with itself.                  *)
(***************************************************************************)
\* descriptor flags may carry bits outside the format and layout fields
SimilarFlagSet == BufFlagSet \cup {SPARK_FMT_F32 + SPARK_LAYOUT_PLANAR + 256}

SimilarBufferSet ==
  [base : {NULL, InBase, OutBase}, channels : 0..MaxCount, frames : 1..MaxCount,
   flags : SimilarFlagSet]

DescriptorPtrSet == {NULL, InPtr, OutPtr}

InitSimilar ==
  /\ pc = "similar"
  /\ p_block = 1
  /\ block \in [abi_version : {SPARK_ABI_VERSION},
                 struct_size : {sizeof_spark_block_t},
                 input : SimilarBufferSet, output : SimilarBufferSet]
  /\ flags = 0
  /\ status = NoStatus
  /\ cmp = NoCompare
  /\ NoKernelRun
  /\ NoStream

SimilarCall ==
  /\ pc = "similar"
  /\ \E a \in DescriptorPtrSet, b \in DescriptorPtrSet :
       cmp' = [a |-> a, b |-> b,
               ab |-> spark_buffer_is_similar(a, b, BlockHeap(block)),
               ba |-> spark_buffer_is_similar(b, a, BlockHeap(block)),
               aa |-> spark_buffer_is_similar(a, a, BlockHeap(block))]
  /\ pc' = "compared"
  /\ UNCHANGED <<p_block, block, flags, status, kernelVars, streamVars>>

NextSimilar == SimilarCall

SpecSimilar == InitSimilar /\ [][NextSimilar]_vars

(***************************************************************************)
(* SpecKernel: one call of spark_sosfilt_f32 on any instance, in a debug   *)
(* or a release build.                                                     *)
(***************************************************************************)
NoValidateCall ==
  /\ pc = "kernel"
  /\ p_block = NULL
  /\ block = NoBlock
  /\ flags = 0
  /\ status = NoStatus
  /\ cmp = NoCompare

InitKernel ==
  /\ NoValidateCall
  /\ self \in SelfSet \cup {NoSelf}
  /\ ndebug \in BOOLEAN
  /\ coeffMem = CoeffMemOf(<<1, 1, 1, 0, 0>>, <<1, 0, 1, 1, -1>>)
  /\ stateMem \in {StateMemOf(0), StateMemOf(1)}
  /\ samples = [a \in 1..MemSize |-> 1]
  /\ kernel = KernelIdle
  /\ accesses = <<>>
  /\ whole = <<>>
  /\ state0 = stateMem
  /\ collected = <<>>
  /\ fed = 0
  /\ chunk = 0
  /\ calls = 1

Assign(m) ==
  /\ kernel' = m.kernel
  /\ stateMem' = m.stateMem
  /\ samples' = m.samples
  /\ accesses' = m.accesses

SosfiltEntry ==
  /\ kernel.pc = "entry"
  /\ kernel' = sosfilt_entry(kernel, self, ndebug)
  /\ UNCHANGED <<validateVars, streamVars, self, ndebug, coeffMem, stateMem,
                 samples, accesses>>

SosfiltChannel ==
  /\ kernel.pc = "chan_loop"
  /\ kernel' = sosfilt_channel(kernel)
  /\ UNCHANGED <<validateVars, streamVars, self, ndebug, coeffMem, stateMem,
                 samples, accesses>>

\* the stage about to run loads through a NULL pointer
NullDeref ==
  /\ kernel.pc = "stage_loop"
  /\ kernel.stage < kernel.n_stages
  /\ (self.coefficients = NULL \/ self.states = NULL)

SosfiltStage ==
  /\ kernel.pc = "stage_loop"
  /\ \E g \in (IF NullDeref THEN GarbageSet ELSE {0}) :
       Assign(sosfilt_stage(Machine(kernel, stateMem, samples, accesses),
                            self, coeffMem, g))
  /\ UNCHANGED <<validateVars, streamVars, self, ndebug, coeffMem>>

\* the load through NULL traps instead
SosfiltTrap ==
  /\ NullDeref
  /\ kernel' = [kernel EXCEPT !.pc = "trapped"]
  /\ accesses' = Append(accesses, AccessOf(kernel))
  /\ UNCHANGED <<validateVars, streamVars, self, ndebug, coeffMem, stateMem,
                 samples>>

NextKernel == SosfiltEntry \/ SosfiltChannel \/ SosfiltStage \/ SosfiltTrap

SpecKernel == InitKernel /\ [][NextKernel]_vars

(***************************************************************************)
(* SpecPlane: the head of one iteration of the channel loop of             *)
(* spark_sosfilt_f32, on validated headers whose counts go up to 2^16 + 1. *)
(* The iterations before it are not stepped through: the kernel starts at  *)
(* the loop test with the cursors where those iterations leave them.       *)
(***************************************************************************)
PlaneFrameSet == {1, 3, 65536, 65537}

PlaneChanSet == {0, 1, 2, 32767, 65536, 65537}

InitPlane ==
  /\ NoValidateCall
  /\ ndebug \in BOOLEAN
  /\ coeffMem = <<>>
  /\ stateMem = <<>>
  /\ samples = <<>>
  /\ accesses = <<>>
  /\ NoStream
  /\ \E c \in PlaneChanSet, more \in {1, 65538}, f \in PlaneFrameSet,
        ob \in {InBase, OutBase}, fl \in {0, SPARK_SOSFILT_SHARE_SOS} :
       /\ self = [p |-> 1, header |-> HeaderOf(c + more, f, ob), coefficients |-> 1,
                  states |-> 1, n_stages |-> 1, flags |-> fl]
       /\ kernel = [sosfilt_entry(KernelIdle, self, ndebug)
                      EXCEPT !.chan = c,
                             !.coeff = IF fl = SPARK_SOSFILT_SHARE_SOS
                                         THEN (IF c = 0 THEN 0 ELSE 5)
                                         ELSE 5 * c,
                             !.states = 2 * c]

NextPlane == SosfiltChannel

SpecPlane == InitPlane /\ [][NextPlane]_vars

(***************************************************************************)
(* SpecStream: a caller streams a signal through one filter instance, in   *)
(* consecutive chunks of any lengths, gathering the output of each call.   *)
(***************************************************************************)
SignalLen == Len(whole[0])

\* planar sample memory holding frames [from+1 .. from+n] of every channel
\* of the signal at InBase, the rest as in old
LoadPlanes(old, from, n) ==
  [a \in 1..MemSize |->
     IF a >= InBase /\ a < InBase + (Cardinality(DOMAIN whole) * n)
       THEN whole[(a - InBase) \div n][from + ((a - InBase) % n) + 1]
       ELSE old[a]]

\* the output plane of channel c after a call on n frames
OutputPlane(smp, outbase, c, n) ==
  [i \in 1..n |-> smp[outbase + (c * n) + i - 1]]

InitStream ==
  /\ NoValidateCall
  /\ ndebug = TRUE
  /\ \E c \in 1..MaxChannels, len \in 1..MaxFrames, st \in 1..MaxStages,
        fl \in {0, SPARK_SOSFILT_SHARE_SOS}, ob \in {InBase, OutBase},
        seed \in SeedSet :
       /\ self = [p |-> 1, header |-> HeaderOf(c, len, ob), coefficients |-> 1,
                  states |-> 1, n_stages |-> st, flags |-> fl]
       /\ whole = [ch \in 0..(c - 1) |-> [i \in 1..len |-> SignalOf(seed, ch, i)]]
       /\ collected = [ch \in 0..(c - 1) |-> <<>>]
  /\ coeffMem \in CoeffMemSet
  /\ stateMem \in StateMemSet
  /\ state0 = stateMem
  /\ samples = BlankSamples
  /\ kernel = [KernelIdle EXCEPT !.pc = "returned"]
  /\ accesses = <<>>
  /\ fed = 0
  /\ chunk = 0
  /\ calls = 0

\* the caller fills the input planes with the next n frames and calls
FeedChunk ==
  /\ kernel.pc = "returned"
  /\ chunk = 0
  /\ fed < SignalLen
  /\ \E n \in 1..(SignalLen - fed) :
       /\ self' = [self EXCEPT !.header.input.frames = n,
                               !.header.output.frames = n]
       /\ samples' = LoadPlanes(samples, fed, n)
       /\ chunk' = n
  /\ kernel' = KernelIdle
  /\ accesses' = <<>>
  /\ calls' = calls + 1
  /\ UNCHANGED <<validateVars, ndebug, coeffMem, stateMem, whole, state0,
                 collected, fed>>

\* the call has returned: the caller gathers the output planes
CollectChunk ==
  /\ kernel.pc = "returned"
  /\ chunk > 0
  /\ collected' = [ch \in DOMAIN whole |->
                     collected[ch]
                       \o OutputPlane(samples, self.header.output.base, ch, chunk)]
  /\ fed' = fed + chunk
  /\ chunk' = 0
  /\ UNCHANGED <<validateVars, kernelVars, whole, state0, calls>>

NextStream ==
  FeedChunk \/ SosfiltEntry \/ SosfiltChannel \/ SosfiltStage \/ CollectChunk

SpecStream == InitStream /\ [][NextStream]_vars

(***************************************************************************)
(* Vocabulary of the validation claims.                                    *)
(***************************************************************************)
Returned == pc = "done"

SizeOk == block.struct_size >= sizeof_spark_block_t
AbiOk == block.abi_version = SPARK_ABI_VERSION
ReqFmt == flags % 16
ReqLayout == (flags % 256) - (flags % 16)
ReqType == (flags % 2048) - (flags % 256)
ReqFlagsOk ==
  /\ ReqFmt # SPARK_FMT_INVALID
  /\ ReqLayout # SPARK_LAYOUT_INVALID
  /\ ReqType # SPARK_BLOCK_INVALID
GatesPassed == p_block # NULL /\ SizeOk /\ AbiOk /\ ReqFlagsOk

\* a descriptor on its own: non-null base and non-zero shape
Shaped(d) == d.base # NULL /\ d.channels # 0 /\ d.frames # 0
\* its format and layout are the required ones
Typed(d) ==
  /\ (d.flags % 16) = ReqFmt
  /\ ((d.flags % 256) - (d.flags % 16)) = ReqLayout
Defect(d) == ~(Shaped(d) /\ Typed(d))

\* C1: the gates are applied in a fixed order and the first failing gate alone
\* decides the status: NULL block 1, else small struct_size 2, else foreign
\* abi_version 3, else invalid required flags 1; where the size or ABI gate
\* fails the status is a function of those two fields only.
C1_GateOrder ==
  Returned =>
    /\ (p_block = NULL => status = SPARK_ERR_INVALID_PARAM)
    /\ (p_block # NULL /\ ~SizeOk => status = SPARK_ERR_INVALID_SIZE)
    /\ (p_block # NULL /\ SizeOk /\ ~AbiOk => status = SPARK_ERR_INVALID_ABI)
    /\ (p_block # NULL /\ SizeOk /\ AbiOk /\ ~ReqFlagsOk
          => status = SPARK_ERR_INVALID_PARAM)

\* both the size and the ABI gate fail, every buffer field is fine, and the
\* call has returned
C1_Witness ==
  /\ Returned /\ p_block # NULL /\ ~SizeOk /\ ~AbiOk /\ ReqFlagsOk
  /\ ~Defect(block.input) /\ ~Defect(block.output)
  /\ status = SPARK_ERR_INVALID_SIZE

\* C2 (as stated): on no-error every buffer relevant to the block type,
\* Convert's output included, is shaped and carries the required format/layout.
C2_Original ==
  (Returned /\ status = SPARK_NOERROR) =>
    /\ (ReqType \in {SPARK_BLOCK_PROCESS, SPARK_BLOCK_CONVERT}
          => ~Defect(block.input) /\ ~Defect(block.output))
    /\ (ReqType = SPARK_BLOCK_SOURCE => ~Defect(block.output))
    /\ (ReqType = SPARK_BLOCK_SINK => ~Defect(block.input))

\* C2 (amended): on no-error every relevant buffer is shaped, and carries the
\* required format/layout except Convert's output, whose format and layout
\* are not constrained.
C2_SuccessGuarantee ==
  (Returned /\ status = SPARK_NOERROR) =>
    /\ ReqType \in {SPARK_BLOCK_PROCESS, SPARK_BLOCK_CONVERT,
                    SPARK_BLOCK_SOURCE, SPARK_BLOCK_SINK}
    /\ (ReqType = SPARK_BLOCK_PROCESS
          => ~Defect(block.input) /\ ~Defect(block.output))
    /\ (ReqType = SPARK_BLOCK_CONVERT
          => ~Defect(block.input) /\ Shaped(block.output))
    /\ (ReqType = SPARK_BLOCK_SOURCE => ~Defect(block.output))
    /\ (ReqType = SPARK_BLOCK_SINK => ~Defect(block.input))

\* a Convert block validated with no error whose output is not of the
\* required type
C2_Witness ==
  /\ Returned /\ status = SPARK_NOERROR
  /\ ReqType = SPARK_BLOCK_CONVERT
  /\ ~Typed(block.output)

C4_MostSpecificCode ==
  (Returned /\ GatesPassed /\ ReqType = SPARK_BLOCK_PROCESS) =>
    /\ (Defect(block.input) => status = SPARK_ERR_INVALID_INPUT)
    /\ (~Defect(block.input) /\ Defect(block.output)
          => status = SPARK_ERR_INVALID_OUTPUT)
    /\ (status = SPARK_ERR_INVALID_BLOCK
          => /\ ~Defect(block.input) /\ ~Defect(block.output)
             /\ \/ block.input.channels # block.output.channels
                \/ block.input.frames # block.output.frames)

\* malformed descriptors to put on the side a Source or Sink does not use
OtherSide ==
  { [base |-> NULL, channels |-> 0, frames |-> 0, flags |-> 0],
    [base |-> 1, channels |-> 1, frames |-> 1,
     flags |-> SPARK_FMT_F32 + SPARK_LAYOUT_PLANAR],
    [base |-> 1, channels |-> MaxCount, frames |-> 0,
     flags |-> SPARK_FMT_I16 + SPARK_LAYOUT_INTERLEAVED] }

\* C5: Source validation does not depend on the input descriptor and Sink
\* validation does not depend on the output descriptor: replacing the unused
\* side by any other descriptor gives the status the call returned.
C5_UnusedSideIgnored ==
  (Returned /\ p_block # NULL) =>
    /\ (ReqType = SPARK_BLOCK_SOURCE =>
          \A d \in OtherSide :
            spark_block_validate(p_block, [block EXCEPT !.input = d], flags) = status)
    /\ (ReqType = SPARK_BLOCK_SINK =>
          \A d \in OtherSide :
            spark_block_validate(p_block, [block EXCEPT !.output = d], flags) = status)

\* a Sink block accepted although its output descriptor is malformed
C5_Witness ==
  /\ Returned /\ GatesPassed /\ ReqType = SPARK_BLOCK_SINK
  /\ block.output.base = NULL /\ block.output.channels = 0
  /\ ~Typed(block.output)
  /\ status = SPARK_NOERROR

\* C6: a Convert block past the gates is accepted exactly when its input is
\* shaped and of the required type and its output is shaped; the output's
\* format/layout bits and the relation between the two shapes play no part.
C6_ConvertExact ==
  (Returned /\ GatesPassed /\ ReqType = SPARK_BLOCK_CONVERT) =>
    (status = SPARK_NOERROR
       <=> /\ Shaped(block.input) /\ Typed(block.input)
           /\ Shaped(block.output))

\* a Convert block accepted with an output of invalid format and with
\* channel and frame counts different from the input's
C6_Witness ==
  /\ Returned /\ GatesPassed /\ ReqType = SPARK_BLOCK_CONVERT
  /\ (block.output.flags % 16) = SPARK_FMT_INVALID
  /\ block.input.frames # block.output.frames
  /\ block.input.channels # block.output.channels
  /\ status = SPARK_NOERROR

(***************************************************************************)
(* Vocabulary of the kernel claims.                                        *)
(***************************************************************************)
HeaderStatus == spark_block_validate(self.p, self.header, KernelFlags)

PreconditionViolated ==
  \/ self.coefficients = NULL
  \/ self.states = NULL
  \/ self.n_stages = 0
  \/ HeaderStatus # SPARK_NOERROR

StateEntries(e) == {e.states, e.states + 1}
CoeffEntries(e) == e.coeff..(e.coeff + 4)

\* C7: in a release build a call that violates a kernel precondition (NULL
\* coefficients, NULL states, zero stages, or a header that fails validation)
\* returns without any biquad_process_f32 call: no coefficient or sample is
\* read, no sample or state value is written, nothing traps.
C7_NoProcessing ==
  (ndebug /\ PreconditionViolated) =>
    /\ accesses = <<>>
    /\ stateMem = state0
    /\ kernel.pc # "trapped"

\* C9: the call of stage s of channel c uses exactly the state entries
\* 2*(c*n_stages + s) and the next one; the state cursor only increases over
\* the calls, no two calls share a state entry, no entry at or beyond
\* channels*n_stages*2 is used, only used entries ever change, and a call
\* that returns normally has run every (channel, stage) pair once.
C9_StateAddressing ==
  /\ \A i \in 1..Len(accesses) :
       LET e == accesses[i] IN
       /\ e.states = 2 * ((e.chan * kernel.n_stages) + e.stage)
       /\ e.states + 1 < kernel.n_chan * kernel.n_stages * 2
       /\ (i > 1 => accesses[i - 1].states < e.states)
       /\ \A j \in 1..Len(accesses) :
            j # i => /\ <<accesses[j].chan, accesses[j].stage>> # <<e.chan, e.stage>>
                     /\ StateEntries(accesses[j]) \cap StateEntries(e) = {}
  /\ \A x \in DOMAIN stateMem :
       stateMem[x] # state0[x] =>
         \E i \in 1..Len(accesses) : x \in StateEntries(accesses[i])
  /\ (kernel.pc = "returned" /\ kernel.status = SPARK_NOERROR)
       => Len(accesses) = kernel.n_chan * kernel.n_stages

\* a returned call over several channels and stages with independent
\* coefficients, whose last stage changed the last state entry
C9_Witness ==
  /\ kernel.pc = "returned"
  /\ ~kernel.share_sos
  /\ kernel.n_chan = MaxChannels /\ kernel.n_stages = MaxStages
  /\ self.coefficients # NULL /\ self.states # NULL
  /\ Len(accesses) = MaxChannels * MaxStages
  /\ stateMem[(2 * MaxChannels * MaxStages) - 1] # state0[(2 * MaxChannels * MaxStages) - 1]

WholeRun ==
  sosfilt_run(Machine(KernelIdle, state0, LoadPlanes(BlankSamples, 0, SignalLen),
                      <<>>),
              [self EXCEPT !.header.input.frames = SignalLen,
                           !.header.output.frames = SignalLen],
              ndebug, coeffMem)

WholeOutput(ch) ==
  OutputPlane(WholeRun.samples, self.header.output.base, ch, SignalLen)

\* C8: whatever the chunk lengths, the output gathered chunk by chunk is the
\* output of one call on the whole signal (up to the frames processed so
\* far), and once the signal is consumed the state array is the one that
\* single call leaves.
C8_StateContinuity ==
  chunk = 0 =>
    /\ \A ch \in DOMAIN whole : collected[ch] = SubSeq(WholeOutput(ch), 1, fed)
    /\ (fed = SignalLen => stateMem = WholeRun.stateMem)

\* a signal of full length consumed in more than one call by a filter of
\* several stages and channels whose state moved
C8_Witness ==
  /\ chunk = 0 /\ fed = SignalLen /\ fed = MaxFrames
  /\ calls >= 2
  /\ Cardinality(DOMAIN whole) = MaxChannels
  /\ self.n_stages = MaxStages
  /\ stateMem # state0
  /\ \E ch \in DOMAIN whole : collected[ch] # whole[ch]

(***************************************************************************)
(* The coefficient layout of the public header.                            *)
(***************************************************************************)
\* C11: the kernel reads the layout iir_filter.h documents: in independent
\* mode channel c's coefficients are the block of n_stages * 6 values that
\* starts at c * n_stages * 6, in shared mode the one block of n_stages * 6
\* values.
C11_DocumentedLayout ==
  (self.coefficients # NULL /\ self.states # NULL) =>
  \A i \in 1..Len(accesses) :
    LET e == accesses[i]
        first == IF kernel.share_sos THEN 0 ELSE e.chan * kernel.n_stages * 6
    IN /\ (e.stage = 0 => e.coeff = first)
       /\ \A x \in CoeffEntries(e) :
            first <= x /\ x < first + (kernel.n_stages * 6)

(***************************************************************************)
(* Identity cascade.                                                       *)
(***************************************************************************)
IdentitySos == <<1, 0, 0, 0, 0>>

IdentityFilter ==
  /\ coeffMem = CoeffMemOf(IdentitySos, IdentitySos)
  /\ state0 = StateMemOf(0)

\* C12: a cascade of any number of identity stages {1, 0, 0, 0, 0} started
\* from an all-zero state writes, for every channel, an output equal to the
\* input sample for sample, and its state stays all zero.
C12_IdentityCascade ==
  IdentityFilter =>
    /\ stateMem = state0
    /\ (kernel.pc = "returned" /\ chunk > 0 =>
          \A ch \in DOMAIN whole :
            OutputPlane(samples, self.header.output.base, ch, chunk)
              = SubSeq(whole[ch], fed + 1, fed + chunk))
    /\ (chunk = 0 =>
          \A ch \in DOMAIN whole : collected[ch] = SubSeq(whole[ch], 1, fed))

\* a signal with a non-zero sample has gone through MaxStages identity
\* stages on MaxChannels channels
C12_Witness ==
  /\ IdentityFilter
  /\ chunk = 0 /\ fed = SignalLen /\ fed = MaxFrames
  /\ self.n_stages = MaxStages
  /\ Cardinality(DOMAIN whole) = MaxChannels
  /\ \A ch \in DOMAIN whole : collected[ch] = whole[ch]
  /\ \E ch \in DOMAIN whole : \E i \in 1..SignalLen : whole[ch][i] # 0

(***************************************************************************)
(* Channel isolation.                                                      *)
(***************************************************************************)
\* the state slice of channel ch: two entries per stage, channel-major
StateSlice(st, ch) ==
  [i \in 0..((2 * self.n_stages) - 1) |-> st[(ch * self.n_stages * 2) + i]]

\* channel ch filtered alone: a one-channel call on its input plane, started
\* from its initial state slice, with the same coefficients
SoloRun(ch) ==
  sosfilt_run(
    Machine(KernelIdle,
            [i \in 0..(StateLen - 1) |->
               Load(state0, (ch * self.n_stages * 2) + i)],
            [a \in 1..MemSize |->
               IF a >= InBase /\ a < InBase + SignalLen
                 THEN whole[ch][a - InBase + 1] ELSE 0],
            <<>>),
    [self EXCEPT !.header.input.channels = 1,
                 !.header.output.channels = 1,
                 !.header.input.frames = SignalLen,
                 !.header.output.frames = SignalLen],
    ndebug, coeffMem)

SoloOutput(ch) ==
  OutputPlane(SoloRun(ch).samples, self.header.output.base, 0, SignalLen)

SharedMode == self.flags = SPARK_SOSFILT_SHARE_SOS

\* C13: with shared coefficients, the output and the final state slice of
\* a channel are those of that channel filtered alone from its own initial
\* state slice, so no other channel's input or state reaches them; two
\* channels with the same input and the same initial slice end with the
\* same output and the same slice.
C13_ChannelIsolation ==
  (SharedMode /\ chunk = 0) =>
    /\ \A ch \in DOMAIN whole :
         /\ collected[ch] = SubSeq(SoloOutput(ch), 1, fed)
         /\ (fed = SignalLen =>
               StateSlice(stateMem, ch) = StateSlice(SoloRun(ch).stateMem, 0))
    /\ \A a, b \in DOMAIN whole :
         (whole[a] = whole[b] /\ StateSlice(state0, a) = StateSlice(state0, b)) =>
           /\ collected[a] = collected[b]
           /\ (fed = SignalLen =>
                 StateSlice(stateMem, a) = StateSlice(stateMem, b))

\* a two-stage shared-coefficient filter has run two channels to the end:
\* once on identical channels whose state moved, once on channels that
\* ended with different outputs
C13_Witness ==
  /\ SharedMode /\ chunk = 0 /\ fed = SignalLen /\ fed = MaxFrames
  /\ self.n_stages = 2
  /\ Cardinality(DOMAIN whole) = MaxChannels
  /\ whole[0] = whole[1]
  /\ StateSlice(state0, 0) = StateSlice(state0, 1)
  /\ StateSlice(stateMem, 0) # StateSlice(state0, 0)
  /\ collected[0] # whole[0]

C13_WitnessDistinct ==
  /\ SharedMode /\ chunk = 0 /\ fed = SignalLen
  /\ self.n_stages = 2
  /\ Cardinality(DOMAIN whole) = MaxChannels
  /\ collected[0] # collected[1]
  /\ StateSlice(stateMem, 0) # StateSlice(stateMem, 1)

(***************************************************************************)
(* In-place operation.                                                     *)
(***************************************************************************)
InPlace == self.header.output.base = self.header.input.base

\* the output base of the other arrangement: separate if the call is in
\* place, in place if it is separate
OtherBase == IF InPlace THEN OutBase ELSE InBase

\* one call on the whole signal with the other arrangement of the buffers
OtherRun ==
  sosfilt_run(Machine(KernelIdle, state0, LoadPlanes(BlankSamples, 0, SignalLen),
                      <<>>),
              [self EXCEPT !.header.output.base = OtherBase,
                           !.header.input.frames = SignalLen,
                           !.header.output.frames = SignalLen],
              ndebug, coeffMem)

OtherOutput(ch) == OutputPlane(OtherRun.samples, OtherBase, ch, SignalLen)

\* C14: a run whose output base is the input base writes the same output
\* samples and leaves the same state as the run with a separate output
\* buffer, for every coefficient set, initial state, stage count and input.
C14_InPlaceSafety ==
  chunk = 0 =>
    /\ \A ch \in DOMAIN whole : collected[ch] = SubSeq(OtherOutput(ch), 1, fed)
    /\ (fed = SignalLen => stateMem = OtherRun.stateMem)

\* an in-place run of MaxStages stages on MaxChannels channels has consumed
\* a signal of full length, changed it and moved the state
C14_Witness ==
  /\ InPlace
  /\ chunk = 0 /\ fed = SignalLen /\ fed = MaxFrames
  /\ self.n_stages = MaxStages
  /\ Cardinality(DOMAIN whole) = MaxChannels
  /\ stateMem # state0
  /\ \A ch \in DOMAIN whole : collected[ch] # whole[ch]

C15_WitnessFailing ==
  /\ pc = "repeated"
  /\ GatesPassed
  /\ ReqType = SPARK_BLOCK_SINK
  /\ status = SPARK_ERR_INVALID_INPUT

(***************************************************************************)
(* Decoding of the block type.                                             *)
(***************************************************************************)
CallReturned == pc \in {"done", "repeated"}

\* the bits of the required flags outside the three fields
StrayBits == flags - (flags % 2048)

\* C17: past the NULL, size and ABI gates a block-type field of 0 gives
\* INVALID_PARAM; a field of 5, 6 or 7 with a valid format and layout gives
\* INVALID_BLOCK whatever the descriptors hold; and the status is the one
\* the same call returns with the bits outside the three fields cleared.
C17_BlockTypeDecoding ==
  CallReturned =>
    /\ (p_block # NULL /\ SizeOk /\ AbiOk) =>
         /\ (ReqType = SPARK_BLOCK_INVALID => status = SPARK_ERR_INVALID_PARAM)
         /\ ((ReqType \in {5 * 256, 6 * 256, 7 * 256}
               /\ ReqFmt # SPARK_FMT_INVALID
               /\ ReqLayout # SPARK_LAYOUT_INVALID)
              => status = SPARK_ERR_INVALID_BLOCK)
    /\ status = spark_block_validate(p_block, block, flags % 2048)

\* a call with stray bits and an unknown block type on descriptors that
\* would pass as a Process block
C17_Witness ==
  /\ CallReturned
  /\ StrayBits # 0
  /\ ReqType = 7 * 256
  /\ status = SPARK_ERR_INVALID_BLOCK
  /\ spark_block_validate(p_block, block,
                          (flags % 256) + SPARK_BLOCK_PROCESS) = SPARK_NOERROR

C17_WitnessTypeZero ==
  /\ CallReturned
  /\ StrayBits # 0
  /\ p_block # NULL /\ SizeOk /\ AbiOk
  /\ ReqType = SPARK_BLOCK_INVALID
  /\ ReqFmt # SPARK_FMT_INVALID /\ ReqLayout # SPARK_LAYOUT_INVALID
  /\ status = SPARK_ERR_INVALID_PARAM

(***************************************************************************)
(* The similarity relation.                                                *)
(***************************************************************************)
Compared == pc = "compared"

\* equal format bits, layout bits, channel count and frame count
SameMetadata(x, y) ==
  /\ x.flags % 16 = y.flags % 16
  /\ (x.flags \div 16) % 16 = (y.flags \div 16) % 16
  /\ x.channels = y.channels
  /\ x.frames = y.frames

\* C16: spark_buffer_is_similar is reflexive (a NULL reference included)
\* and symmetric, never holds between a NULL and a non-NULL reference, and
\* holds between two non-NULL descriptors exactly when their format bits,
\* layout bits, channel counts and frame counts are equal, whatever their
\* base pointers.
C16_SimilarRelation ==
  Compared =>
    /\ cmp.aa
    /\ cmp.ab = cmp.ba
    /\ ((cmp.a = NULL) # (cmp.b = NULL) => ~cmp.ab)
    /\ (cmp.a = NULL /\ cmp.b = NULL => cmp.ab)
    /\ (cmp.a # NULL /\ cmp.b # NULL =>
          (cmp.ab <=> SameMetadata(BlockHeap(block)[cmp.a],
                                   BlockHeap(block)[cmp.b])))

\* two distinct descriptors with different bases and different stray flag
\* bits found similar
C16_Witness ==
  /\ Compared
  /\ cmp.a = InPtr /\ cmp.b = OutPtr
  /\ cmp.ab /\ cmp.ba
  /\ block.input.base # NULL /\ block.output.base # NULL
  /\ block.input.base # block.output.base
  /\ block.input.flags # block.output.flags

C16_WitnessNull ==
  /\ Compared
  /\ cmp.a = NULL /\ cmp.b = InPtr
  /\ ~cmp.ab /\ ~cmp.ba /\ cmp.aa

(***************************************************************************)
(* Plane addressing.                                                       *)
(***************************************************************************)
\* off is k * frames as a product of integers (frames > 0)
ExactPlaneOffset(off, k, frames) == off \div frames = k /\ off % frames = 0

\* C18: for every validated block the kernel reads channel k's input and
\* writes channel k's output at sample offset exactly k * frames from the
\* base, the 32-bit product not wrapping around.
C18_PlaneAddressing ==
  kernel.pc = "stage_loop" =>
    /\ ExactPlaneOffset(kernel.in - kernel.input, kernel.chan, kernel.n_frames)
    /\ ExactPlaneOffset(kernel.out - kernel.output, kernel.chan, kernel.n_frames)

\* a channel iteration whose product stays below 2^32 addresses its plane
\* exactly
C18_NoWrapExact ==
  (kernel.pc = "stage_loop" /\ kernel.chan <= 32767 /\ kernel.n_frames <= 65537) =>
    /\ ExactPlaneOffset(kernel.in - kernel.input, kernel.chan, kernel.n_frames)
    /\ ExactPlaneOffset(kernel.out - kernel.output, kernel.chan, kernel.n_frames)

(***************************************************************************)
(* Order of the Process checks.                                            *)
(***************************************************************************)
ProcessValidated ==
  Returned /\ GatesPassed /\ ReqType = SPARK_BLOCK_PROCESS

BuffersSimilar == SameMetadata(block.input, block.output)

\* C19: in Process validation the similarity check comes first: buffers
\* that are not similar get INVALID_BLOCK whatever else is wrong with
\* them; once they are similar and the input is valid, INVALID_OUTPUT is
\* returned exactly when the output base is NULL, and in no other case at
\* all; two shaped buffers with the same wrong format/layout get
\* INVALID_INPUT.
C19_SimilarityFirst ==
  ProcessValidated =>
    /\ (~BuffersSimilar => status = SPARK_ERR_INVALID_BLOCK)
    /\ ((BuffersSimilar /\ Shaped(block.input)) =>
          (status = SPARK_ERR_INVALID_OUTPUT <=> block.output.base = NULL))
    /\ (status = SPARK_ERR_INVALID_OUTPUT =>
          (BuffersSimilar /\ Shaped(block.input) /\ block.output.base = NULL))
    /\ ((/\ Shaped(block.input) /\ Shaped(block.output)
         /\ block.input.flags = block.output.flags
         /\ ~Typed(block.input)
         /\ BuffersSimilar) => status = SPARK_ERR_INVALID_INPUT)

\* two shaped, similar buffers carrying the same wrong format
C19_Witness ==
  /\ ProcessValidated
  /\ BuffersSimilar
  /\ Shaped(block.input) /\ Shaped(block.output)
  /\ ~Typed(block.input) /\ ~Typed(block.output)
  /\ status = SPARK_ERR_INVALID_INPUT

\* similar buffers, a valid input, a NULL output base
C19_WitnessNullOutput ==
  /\ ProcessValidated
  /\ BuffersSimilar /\ Shaped(block.input) /\ Typed(block.input)
  /\ block.output.base = NULL
  /\ status = SPARK_ERR_INVALID_OUTPUT

\* a defective input and a differing output shape: INVALID_BLOCK wins
C19_WitnessBlockFirst ==
  /\ ProcessValidated
  /\ ~BuffersSimilar
  /\ ~Shaped(block.input)
  /\ status = SPARK_ERR_INVALID_BLOCK

====
